---- MODULE Spec2Model ----
(***************************************************************************)
(* Model of pdf_app.py (PDF Cleaner Pro): the page pipeline run by the     *)
(* "Start Processing" button, and the three raster functions               *)
(* remove_handwriting_logic, enhance_image_color and deskew_image.         *)
(*                                                                         *)
(* Spec        the run of the button handler (lines 107-166)               *)
(* SpecHW      remove_handwriting_logic on bounded rasters                 *)
(* SpecColor   enhance_image_color on bounded rasters                      *)
(* SpecDeskew  deskew_image on bounded rasters                             *)
(***************************************************************************)
EXTENDS Integers, Sequences, FiniteSets, TLC

\* ---------------------------------------------------------------- bounds
\* largest number of pages of the uploaded document
MaxPages == 10
\* largest height and width (in pixels) of a raster given to a raster function
MaxH == 2
MaxW == 3

VARIABLES
    \* ---- the run of the button handler
    pc,                      \* position in the handler
    doc_pages,               \* number of pages of uploaded_file
    mode,                    \* sidebar radio selection
    pil_images,              \* list returned by convert_from_bytes
    total_pages,
    i,                       \* index of the page of the current iteration
    open_cv_image,
    deskewed,
    final_img,
    img_byte_arr,
    processed_images_bytes,
    final_pdf_bytes,
    progress_events,         \* the calls made on progress_bar, in order
    error_shown,             \* st.error was called
    download,                \* data given to st.download_button
    \* ---- one call of a raster function
    fn,                      \* "idle" before the call, "returned" after it
    image_cv,                \* the argument raster
    threshold_val,           \* remove_handwriting_logic's second argument
    angle,                   \* what determine_skew returns
    result                   \* the returned raster

runVars == <<pc, doc_pages, mode, pil_images, total_pages, i, open_cv_image,
             deskewed, final_img, img_byte_arr, processed_images_bytes,
             final_pdf_bytes, progress_events, error_shown, download>>
fnVars == <<fn, image_cv, threshold_val, angle, result>>
vars == <<runVars, fnVars>>

\* Python's None for a name that holds at most one object
None == <<>>

Last(s) == s[Len(s)]
Front(s) == SubSeq(s, 1, Len(s) - 1)

\* ------------------------------------------------------------------------
\* int((i / total_pages) * 90)                                 (line 122)
\*
\* Both operations are IEEE-754 double operations, rounded to nearest, ties
\* to even: i / total_pages is rounded to 53 significant bits, the product
\* with 90 is rounded again, and int() truncates.  A double is kept as
\*     (hi * 2^(18 + lw) + mid * 2^lw + lo) * 2^e
\* with mid < 2^18, lo < 2^lw and 53 significant bits in hi, mid, lo
\* together, so that no intermediate value leaves 32 bits.

RECURSIVE Pow2(_)
Pow2(k) == IF k = 0 THEN 1 ELSE 2 * Pow2(k - 1)

\* the number of zero bits of a / n after the binary point, 0 < a < n
RECURSIVE LeadingZeros(_, _)
LeadingZeros(a, n) == IF 2 * a >= n THEN 0 ELSE 1 + LeadingZeros(2 * a, n)

\* Round to nearest, ties to even: up says that the discarded part is above
\* one half, tie that it is exactly one half.  A carry out of the 53 bits
\* (hi reaching 2 * top) halves the significand and raises the exponent.
RoundDouble(hi, mid, lo, lw, e, up, tie, top) ==
    LET inc  == up \/ (tie /\ lo % 2 = 1)
        lo1  == IF inc THEN lo + 1 ELSE lo
        c1   == lo1 \div Pow2(lw)
        mid1 == mid + c1
        c2   == mid1 \div Pow2(18)
        hi1  == hi + c2
    IN  IF hi1 = 2 * top
        THEN [hi |-> top, mid |-> 0, lo |-> 0, lw |-> lw, e |-> e + 1]
        ELSE [hi |-> hi1, mid |-> mid1 % Pow2(18), lo |-> lo1 % Pow2(lw),
              lw |-> lw, e |-> e]

\* the double nearest to a / n, for 0 < a < n < 2^13
DoubleDiv(a, n) ==
    LET z  == LeadingZeros(a, n)
        a0 == a * Pow2(z)
        q1 == (a0 * Pow2(18)) \div n
        r1 == (a0 * Pow2(18)) % n
        q2 == (r1 * Pow2(18)) \div n
        r2 == (r1 * Pow2(18)) % n
        q3 == (r2 * Pow2(17)) \div n
        r3 == (r2 * Pow2(17)) % n
    IN  RoundDouble(q1, q2, q3, 17, 0 - (z + 53), 2 * r3 > n, 2 * r3 = n,
                    Pow2(17))

\* the double nearest to x * k, for a double x from DoubleDiv and 64 <= k < 128
DoubleMul(x, k) ==
    LET p3   == x.lo * k
        p2   == x.mid * k + p3 \div Pow2(x.lw)
        p1   == x.hi * k + p2 \div Pow2(18)
        l3   == p3 % Pow2(x.lw)
        l2   == p2 % Pow2(18)
        \* the product has 59 or 60 bits: 6 or 7 of them are discarded
        d    == IF p1 >= Pow2(24) THEN 7 ELSE 6
        gone == l3 % Pow2(d)
        half == Pow2(d - 1)
    IN  RoundDouble(p1, l2, l3 \div Pow2(d), x.lw - d, x.e + d,
                    gone > half, gone = half, Pow2(17 + d))

\* int(x) for a double 0 < x < 2^17
DoubleInt(x) ==
    LET s == 0 - (x.e + 18 + x.lw)
    IN  IF s > 30 THEN 0 ELSE x.hi \div Pow2(s)

ProgressValueReversed(k, total) == ((total - k) * 90) \div total
ProgressValuePercent(k, total) == (k * 100) \div total

\* progress = int((i / total_pages) * 90)                       (line 122)
ProgressValue(k, total) ==
    IF k = 0 THEN 0 ELSE DoubleInt(DoubleMul(DoubleDiv(k, total), 90))

\* ------------------------------------------------------------------------
\* Rasters and the OpenCV operations the three functions call
\*
\* A raster is [h, w, px]: px maps <<y, x>>, 0 <= y < h, 0 <= x < w, to a
\* sample 0..255 (one channel) or to <<b, g, r>> (three channels).

Pixels(h, w) == (0 .. h - 1) \X (0 .. w - 1)
Raster(h, w, px) == [h |-> h, w |-> w, px |-> px]
Rasters(palette) ==
    UNION {{Raster(h, w, px) : px \in [Pixels(h, w) -> palette]} :
              <<h, w>> \in (1..MaxH) \X (1..MaxW)}

\* one channel of a three-channel raster, as a function of the pixel
Channel(img, c) == [p \in Pixels(img.h, img.w) |-> img.px[p][c]]

\* BORDER_REFLECT_101, OpenCV's default border: gfedcb|abcdefgh|gfedcba
Reflect101(p, len) ==
    IF len = 1 THEN 0
    ELSE LET m == p % (2 * (len - 1))
         IN  IF m < len THEN m ELSE 2 * (len - 1) - m

RECURSIVE SumTo(_, _)
SumTo(f, n) == IF n = 0 THEN 0 ELSE f[n] + SumTo(f, n - 1)

SaturateCastWraps(v) == v % 256

\* saturate_cast<uchar>
SaturateCast(v) == IF v < 0 THEN 0 ELSE IF v > 255 THEN 255 ELSE v

Max3(a, b, c) ==
    IF a >= b /\ a >= c THEN a ELSE IF b >= c THEN b ELSE c

\* cv2.cvtColor(image_cv, cv2.COLOR_BGR2GRAY) on one pixel: 8-bit fixed
\* point, 0.114 B + 0.587 G + 0.299 R scaled by 2^15 and rounded
Bgr2Gray(px) ==
    (px[1] * 3735 + px[2] * 19235 + px[3] * 9798 + 16384) \div 32768

\* the kernels cv2.GaussianBlur uses for ksize 3 and 5 with sigma 0
\* (1/4 1/2 1/4 and 1/16 4/16 6/16 4/16 1/16), as integer weights
GaussKernel3 == <<1, 2, 1>>
GaussKernel5 == <<1, 4, 6, 4, 1>>

\* cv2.GaussianBlur of one 8-bit channel: the separable kernel applied along
\* the rows, then along the columns, exactly (fixed point), and the result
\* rounded half up
GaussianBlur(ch, h, w, K) ==
    LET n   == Len(K)
        r   == (n - 1) \div 2
        tot == SumTo(K, n)
        row == [p \in Pixels(h, w) |->
                   SumTo([j \in 1..n |->
                             K[j] * ch[<<p[1], Reflect101(p[2] + j - 1 - r, w)>>]],
                         n)]
        col == [p \in Pixels(h, w) |->
                   SumTo([j \in 1..n |->
                             K[j] * row[<<Reflect101(p[1] + j - 1 - r, h), p[2]>>]],
                         n)]
    IN  [p \in Pixels(h, w) |-> (col[p] + (tot * tot) \div 2) \div (tot * tot)]

\* ---- remove_handwriting_logic                              (lines 14-33)

\* the Eraser Threshold slider: st.sidebar.slider(.., 50, 180, 100)
ThresholdMin == 50
ThresholdMax == 180
ThresholdDefault == 100

\* gray = cv2.cvtColor(image_cv, cv2.COLOR_BGR2GRAY)            (line 22)
HwGray(img) == [p \in Pixels(img.h, img.w) |-> Bgr2Gray(img.px[p])]

\* blurred = cv2.GaussianBlur(gray, (5, 5), 0)                  (line 25)
HwBlurred(img) == GaussianBlur(HwGray(img), img.h, img.w, GaussKernel5)

ThresholdAtOrAbove(p, t) == IF p >= t THEN 255 ELSE 0

\* cv2.threshold(.., threshold_val, 255, cv2.THRESH_BINARY) on one pixel:
\* maxval where src > thresh, 0 otherwise                        (line 31)
ThresholdBinary(p, t) == IF p > t THEN 255 ELSE 0

remove_handwriting_logic(img, t) ==
    LET blurred == HwBlurred(img)
    IN  Raster(img.h, img.w,
               [p \in Pixels(img.h, img.w) |-> ThresholdBinary(blurred[p], t)])

\* ---- enhance_image_color                                   (lines 35-55)

\* blurred = cv2.GaussianBlur(image_cv, (3, 3), 0), channel c    (line 39)
ColorBlurred(img, c) ==
    GaussianBlur(Channel(img, c), img.h, img.w, GaussKernel3)

\* the V channel of cv2.cvtColor(blurred, cv2.COLOR_BGR2HSV): max(B, G, R)
ColorValue(img) ==
    LET b == ColorBlurred(img, 1)
        g == ColorBlurred(img, 2)
        r == ColorBlurred(img, 3)
    IN  [p \in Pixels(img.h, img.w) |-> Max3(b[p], g[p], r[p])]

\* mask = v > 200                                                (line 44)
BackgroundLevel == 200
ColorMask(img) ==
    LET v == ColorValue(img)
    IN  [p \in Pixels(img.h, img.w) |-> v[p] > BackgroundLevel]

\* cv2.convertScaleAbs(blurred, alpha=1.4, beta=-30) on one sample:
\* saturate_cast<uchar>(|1.4 x - 30|), rounded to nearest (14 x - 300 is
\* even, so no tie occurs)                                       (line 47)
ConvertScaleAbs(x) ==
    LET t == 14 * x - 300
        a == IF t < 0 THEN 0 - t ELSE t
    IN  SaturateCast((a + 5) \div 10)

\* enhanced after line 50, channel c: the contrast step, then white where
\* the mask is set
ColorEnhanced(img, c) ==
    LET blurred == ColorBlurred(img, c)
        mask    == ColorMask(img)
    IN  [p \in Pixels(img.h, img.w) |->
            IF mask[p] THEN 255 ELSE ConvertScaleAbs(blurred[p])]

\* cv2.filter2D(enhanced, -1, kernel) with the kernel of line 53 on one
\* channel: 5 * centre minus the four neighbours, borders reflected,
\* saturated to 8 bits                                           (line 54)
Sharpen(ch, h, w) ==
    [p \in Pixels(h, w) |->
        SaturateCast(5 * ch[p]
                     - ch[<<Reflect101(p[1] - 1, h), p[2]>>]
                     - ch[<<Reflect101(p[1] + 1, h), p[2]>>]
                     - ch[<<p[1], Reflect101(p[2] - 1, w)>>]
                     - ch[<<p[1], Reflect101(p[2] + 1, w)>>])]

enhance_image_color(img) ==
    LET b == Sharpen(ColorEnhanced(img, 1), img.h, img.w)
        g == Sharpen(ColorEnhanced(img, 2), img.h, img.w)
        r == Sharpen(ColorEnhanced(img, 3), img.h, img.w)
    IN  Raster(img.h, img.w,
               [p \in Pixels(img.h, img.w) |-> <<b[p], g[p], r[p]>>])

\* ---- deskew_image                                          (lines 57-72)

\* An angle is None or <<a>>, a in hundredths of a degree.
Abs(a) == IF a < 0 THEN 0 - a ELSE a

NegligibleQuarterDegree(ang) == IF ang = None THEN TRUE ELSE Abs(ang[1]) < 25

\* angle is None or abs(angle) < 0.5                             (line 63)
Negligible(ang) == IF ang = None THEN TRUE ELSE Abs(ang[1]) < 50

\* the dsize (w, h) given to cv2.warpAffine, as <<height, width>> of the
\* raster it returns                                          (lines 65-69)
WarpSize(img) == <<img.h, img.w>>

\* What cv2.warpAffine(image_cv, M, (w, h), INTER_CUBIC, BORDER_CONSTANT,
\* white) returns: a new raster of the size dsize.  Each of its samples is
\* a cubic interpolation of the input's samples or the white border; the
\* model does not compute them, and writes "warped" for each.  (lines 67-72)
WarpAffine(img) ==
    LET size == WarpSize(img)
    IN  Raster(size[1], size[2],
               [p \in Pixels(size[1], size[2]) |-> "warped"])

\* ------------------------------------------------------------------------
\* The run of the button handler                          (lines 107-166)

\* the two entries of the sidebar radio                     (lines 85-88)
Modes == {"color", "handwriting"}

\* A raster or a byte string is an object: what it was made from (page) and
\* which allocation it is (obj).  Two names bound to the same object hold
\* equal records, as deskewed and open_cv_image do after line 64.
Obj(page, kind) == [page |-> page, obj |-> kind]
Held(name) == {name[k] : k \in DOMAIN name}

\* the rasters some name of the handler still refers to
LiveRasters ==
    {Obj(pil_images[k], "pil") : k \in DOMAIN pil_images}
    \cup Held(open_cv_image) \cup Held(deskewed) \cup Held(final_img)
LivePages == {r.page : r \in LiveRasters}

\* the pages convert_from_bytes has rasterized
Rasterized == {pil_images[k] : k \in DOMAIN pil_images}

\* the steps of the try block that call into pdf2image, numpy, OpenCV,
\* deskew, PIL or img2pdf, each of which may raise
RaisingSteps ==
    {"read", "rasterize", "to_cv", "deskew", "enhance", "save", "assemble"}

Init ==
    /\ pc = "idle"
    /\ doc_pages \in 0..MaxPages
    /\ mode \in Modes
    /\ pil_images = <<>>
    /\ total_pages = 0
    /\ i = 0
    /\ open_cv_image = None
    /\ deskewed = None
    /\ final_img = None
    /\ img_byte_arr = None
    /\ processed_images_bytes = <<>>
    /\ final_pdf_bytes = None
    /\ progress_events = <<>>
    /\ error_shown = FALSE
    /\ download = None
    /\ fn = "unused"
    /\ image_cv = None
    /\ threshold_val = 0
    /\ angle = None
    /\ result = None

\* a call progress_bar.progress(v) or st.progress(v), by the line making it
Event(line, v) == [line |-> line, value |-> v]

\* lines 107-109: the button is pressed, the bar is created at 0
Start ==
    /\ pc = "idle"
    /\ progress_events' = Append(progress_events, Event(108, 0))
    /\ pc' = "read"
    /\ UNCHANGED <<doc_pages, mode, pil_images, total_pages, i, open_cv_image,
                   deskewed, final_img, img_byte_arr, processed_images_bytes,
                   final_pdf_bytes, error_shown, download, fnVars>>

\* lines 112-113: file_bytes = uploaded_file.read()
Read ==
    /\ pc = "read"
    /\ pc' = "rasterize"
    /\ UNCHANGED <<doc_pages, mode, pil_images, total_pages, i, open_cv_image,
                   deskewed, final_img, img_byte_arr, processed_images_bytes,
                   final_pdf_bytes, progress_events, error_shown, download,
                   fnVars>>

\* what convert_from_bytes(file_bytes, dpi=200) returns: every page, in order
AllPages(n) == [k \in 1..n |-> k - 1]

\* lines 116-119: one call rasterizes the whole document
Rasterize ==
    /\ pc = "rasterize"
    /\ pil_images' = AllPages(doc_pages)
    /\ processed_images_bytes' = <<>>
    /\ total_pages' = Len(pil_images')
    /\ i' = 0
    /\ pc' = "loop"
    /\ UNCHANGED <<doc_pages, mode, open_cv_image, deskewed, final_img,
                   img_byte_arr, final_pdf_bytes, progress_events, error_shown,
                   download, fnVars>>

HasNextStopsEarly(k, imgs) == k + 1 < Len(imgs)

\* for i, pil_img in enumerate(pil_images): is there a page i     (line 121)
HasNext(k, imgs) == k < Len(imgs)

\* lines 121-124: the head of the loop, and line 150 when it is exhausted
LoopHead ==
    /\ pc = "loop"
    /\ IF HasNext(i, pil_images)
       THEN /\ progress_events' =
                 Append(progress_events, Event(123, ProgressValue(i, total_pages)))
            /\ pc' = "to_cv"
       ELSE /\ pc' = "assemble"
            /\ UNCHANGED progress_events
    /\ UNCHANGED <<doc_pages, mode, pil_images, total_pages, i, open_cv_image,
                   deskewed, final_img, img_byte_arr, processed_images_bytes,
                   final_pdf_bytes, error_shown, download, fnVars>>

\* lines 127-128: np.array(pil_img)[:, :, ::-1].copy()
ToCv ==
    /\ pc = "to_cv"
    /\ open_cv_image' = <<Obj(pil_images[i + 1], "bgr")>>
    /\ pc' = "deskew"
    /\ UNCHANGED <<doc_pages, mode, pil_images, total_pages, i, deskewed,
                   final_img, img_byte_arr, processed_images_bytes,
                   final_pdf_bytes, progress_events, error_shown, download,
                   fnVars>>

\* line 131: deskew_image returns its argument (line 64) or a rotated copy
Deskew ==
    /\ pc = "deskew"
    /\ \E rotate \in BOOLEAN :
          deskewed' = IF rotate
                      THEN <<Obj(open_cv_image[1].page, "rotated")>>
                      ELSE open_cv_image
    /\ pc' = "enhance"
    /\ UNCHANGED <<doc_pages, mode, pil_images, total_pages, i, open_cv_image,
                   final_img, img_byte_arr, processed_images_bytes,
                   final_pdf_bytes, progress_events, error_shown, download,
                   fnVars>>

\* lines 134-142: the chosen strategy, then the conversion to RGB
Enhance ==
    /\ pc = "enhance"
    /\ final_img' = <<Obj(deskewed[1].page,
                          IF mode = "color" THEN "rgb" ELSE "binary_rgb")>>
    /\ pc' = "save"
    /\ UNCHANGED <<doc_pages, mode, pil_images, total_pages, i, open_cv_image,
                   deskewed, img_byte_arr, processed_images_bytes,
                   final_pdf_bytes, progress_events, error_shown, download,
                   fnVars>>

\* lines 145-147: the raster is written as JPEG into a fresh BytesIO
Save ==
    /\ pc = "save"
    /\ img_byte_arr' = <<Obj(final_img[1].page, "jpeg")>>
    /\ pc' = "append"
    /\ UNCHANGED <<doc_pages, mode, pil_images, total_pages, i, open_cv_image,
                   deskewed, final_img, processed_images_bytes,
                   final_pdf_bytes, progress_events, error_shown, download,
                   fnVars>>

StorePayloadFront(list, payload) == <<payload>> \o list

\* processed_images_bytes.append(img_byte_arr.getvalue())        (line 148)
StorePayload(list, payload) == Append(list, payload)

\* line 148, and the step of enumerate to the next page
AppendPayload ==
    /\ pc = "append"
    /\ processed_images_bytes' =
           StorePayload(processed_images_bytes, img_byte_arr[1])
    /\ i' = i + 1
    /\ pc' = "loop"
    /\ UNCHANGED <<doc_pages, mode, pil_images, total_pages, open_cv_image,
                   deskewed, final_img, img_byte_arr, final_pdf_bytes,
                   progress_events, error_shown, download, fnVars>>

\* lines 150-151: img2pdf.convert packs the payloads, one page each, in order
Assemble ==
    /\ pc = "assemble"
    /\ final_pdf_bytes' =
           <<[k \in DOMAIN processed_images_bytes |->
                  processed_images_bytes[k].page]>>
    /\ pc' = "report100"
    /\ UNCHANGED <<doc_pages, mode, pil_images, total_pages, i, open_cv_image,
                   deskewed, final_img, img_byte_arr, processed_images_bytes,
                   progress_events, error_shown, download, fnVars>>

\* lines 153-154: progress_bar.progress(100)
Report100 ==
    /\ pc = "report100"
    /\ progress_events' = Append(progress_events, Event(153, 100))
    /\ pc' = "offer"
    /\ UNCHANGED <<doc_pages, mode, pil_images, total_pages, i, open_cv_image,
                   deskewed, final_img, img_byte_arr, processed_images_bytes,
                   final_pdf_bytes, error_shown, download, fnVars>>

\* lines 156-161: st.download_button(data=final_pdf_bytes)
Offer ==
    /\ pc = "offer"
    /\ download' = final_pdf_bytes
    /\ pc' = "done"
    /\ UNCHANGED <<doc_pages, mode, pil_images, total_pages, i, open_cv_image,
                   deskewed, final_img, img_byte_arr, processed_images_bytes,
                   final_pdf_bytes, progress_events, error_shown,
                   fnVars>>

\* what a handler "except Exception: continue" inside the loop would do
ExceptionSkipsPage ==
    /\ pc \in RaisingSteps
    /\ IF pc \in {"to_cv", "deskew", "enhance", "save"}
       THEN /\ pc' = "loop"
            /\ i' = i + 1
            /\ UNCHANGED error_shown
       ELSE /\ pc' = "failed"
            /\ error_shown' = TRUE
            /\ UNCHANGED i
    /\ UNCHANGED <<doc_pages, mode, pil_images, total_pages, open_cv_image,
                   deskewed, final_img, img_byte_arr, processed_images_bytes,
                   final_pdf_bytes, progress_events, download, fnVars>>

\* lines 163-166: a call of the try block raises; the handler reports the
\* error and the script ends
Exception ==
    /\ pc \in RaisingSteps
    /\ pc' = "failed"
    /\ error_shown' = TRUE
    /\ UNCHANGED <<doc_pages, mode, pil_images, total_pages, i, open_cv_image,
                   deskewed, final_img, img_byte_arr, processed_images_bytes,
                   final_pdf_bytes, progress_events, download, fnVars>>

Next ==
    \/ Start
    \/ Read
    \/ Rasterize
    \/ LoopHead
    \/ ToCv
    \/ Deskew
    \/ Enhance
    \/ Save
    \/ AppendPayload
    \/ Assemble
    \/ Report100
    \/ Offer
    \/ Exception

Spec == Init /\ [][Next]_vars

\* ------------------------------------------------------------------------
\* One call of a raster function
\*
\* The argument is a raster of at most MaxH x MaxW pixels.  The handler
\* is not running: its variables keep the values of a session in which the
\* button was never pressed.

NoRun ==
    /\ pc = "unused"
    /\ doc_pages = 0
    /\ mode = "unused"
    /\ pil_images = <<>>
    /\ total_pages = 0
    /\ i = 0
    /\ open_cv_image = None
    /\ deskewed = None
    /\ final_img = None
    /\ img_byte_arr = None
    /\ processed_images_bytes = <<>>
    /\ final_pdf_bytes = None
    /\ progress_events = <<>>
    /\ error_shown = FALSE
    /\ download = None

\* ---- remove_handwriting_logic

\* Pages of blue pen on white paper, with the slider at its ends or at its
\* default; and the one-pixel pages of every gray, with the slider at every
\* position.
HwPalette == {<<200, 60, 40>>, <<255, 255, 255>>}
GrayPages ==
    {Raster(1, 1, [p \in Pixels(1, 1) |-> <<g, g, g>>]) : g \in 0..255}

InitHW ==
    /\ NoRun
    /\ fn = "idle"
    /\ \/ /\ image_cv \in Rasters(HwPalette)
          /\ threshold_val \in {ThresholdMin, ThresholdDefault, ThresholdMax}
       \/ /\ image_cv \in GrayPages
          /\ threshold_val \in ThresholdMin..ThresholdMax
    /\ angle = None
    /\ result = None

CallRemoveHandwriting ==
    /\ fn = "idle"
    /\ result' = remove_handwriting_logic(image_cv, threshold_val)
    /\ fn' = "returned"
    /\ UNCHANGED <<image_cv, threshold_val, angle, runVars>>

SpecHW == InitHW /\ [][CallRemoveHandwriting]_vars

\* ---- enhance_image_color

\* a red pen stroke of brightness 200 on off-white paper (B, G, R)
ColorPalette == {<<60, 50, 200>>, <<215, 228, 240>>}

InitColor ==
    /\ NoRun
    /\ fn = "idle"
    /\ image_cv \in Rasters(ColorPalette)
    /\ threshold_val = 0
    /\ angle = None
    /\ result = None

CallEnhanceColor ==
    /\ fn = "idle"
    /\ result' = enhance_image_color(image_cv)
    /\ fn' = "returned"
    /\ UNCHANGED <<image_cv, threshold_val, angle, runVars>>

SpecColor == InitColor /\ [][CallEnhanceColor]_vars

\* ---- deskew_image

\* black print on white paper
DeskewPalette == {<<0, 0, 0>>, <<255, 255, 255>>}

\* what determine_skew may return: None, or an angle in hundredths of a
\* degree, on both sides of the 0.5 degree limit
Angles == {None, <<-50>>, <<-49>>, <<0>>, <<49>>, <<50>>, <<300>>}

InitDeskew ==
    /\ NoRun
    /\ fn = "idle"
    /\ image_cv \in Rasters(DeskewPalette)
    /\ threshold_val = 0
    /\ angle \in Angles
    /\ result = None

\* lines 63-64: the angle is negligible, the argument itself is returned
DeskewReturnsInput ==
    /\ fn = "idle"
    /\ Negligible(angle)
    /\ result' = image_cv
    /\ fn' = "returned_input"
    /\ UNCHANGED <<image_cv, threshold_val, angle, runVars>>

\* lines 65-72: the raster is rotated about its centre into a new raster
DeskewRotates ==
    /\ fn = "idle"
    /\ ~Negligible(angle)
    /\ result' = WarpAffine(image_cv)
    /\ fn' = "returned_rotated"
    /\ UNCHANGED <<image_cv, threshold_val, angle, runVars>>

NextDeskew == DeskewReturnsInput \/ DeskewRotates

SpecDeskew == InitDeskew /\ [][NextDeskew]_vars

\* ------------------------------------------------------------------------
\* Properties of the raster functions

\* C6: with p the smoothed luminance of a pixel and t the threshold, p < t
\* gives 0 and p >= t gives 255; a pixel equal to the threshold is white.
C6_AtOrAboveIsWhite ==
    fn = "returned" =>
        \A p \in Pixels(image_cv.h, image_cv.w) :
            LET lum == HwBlurred(image_cv)[p]
            IN  /\ lum < threshold_val => result.px[p] = 0
                /\ lum >= threshold_val => result.px[p] = 255

\* C6 as amended: p <= t gives 0 and p > t gives 255; a pixel equal to the
\* threshold is black.
C6_AboveIsWhite ==
    fn = "returned" =>
        /\ result.h = image_cv.h /\ result.w = image_cv.w
        /\ \A p \in Pixels(image_cv.h, image_cv.w) :
              LET lum == HwBlurred(image_cv)[p]
              IN  /\ lum <= threshold_val => result.px[p] = 0
                  /\ lum > threshold_val => result.px[p] = 255

C6_Witness ==
    /\ fn = "returned"
    /\ threshold_val = 100
    /\ \E p \in Pixels(image_cv.h, image_cv.w) :
          HwBlurred(image_cv)[p] = 100 /\ result.px[p] = 0

\* C7: when the angle is None or below 0.5 degrees the returned raster is
\* the input raster, every pixel and both dimensions unchanged; a rotation
\* is applied only when |angle| >= 0.5, and keeps the width and height.
C7_NegligibleAngleKeepsInput ==
    /\ (fn # "idle" /\ (IF angle = None THEN TRUE ELSE Abs(angle[1]) < 50)) =>
           fn = "returned_input" /\ result = image_cv
    /\ fn = "returned_rotated" =>
           /\ (IF angle = None THEN FALSE ELSE Abs(angle[1]) >= 50)
           /\ result.h = image_cv.h
           /\ result.w = image_cv.w

C7_Witness ==
    /\ fn = "returned_input"
    /\ angle = <<49>>
    /\ image_cv.h = 1 /\ image_cv.w = 2
    /\ image_cv.px[<<0, 0>>] # image_cv.px[<<0, 1>>]
    /\ result = image_cv

\* C9: every pixel whose smoothed value-channel brightness is above 200 is
\* pure white in the output of enhance_image_color, whatever its neighbours.
C9_BackgroundStaysWhite ==
    fn = "returned" =>
        \A p \in Pixels(image_cv.h, image_cv.w) :
            ColorValue(image_cv)[p] > 200 =>
                result.px[p] = <<255, 255, 255>>

\* a masked pixel with a neighbour that is not white after line 50
C9_Witness ==
    /\ fn = "returned"
    /\ \E p \in Pixels(image_cv.h, image_cv.w) :
          /\ ColorValue(image_cv)[p] > 200
          /\ p[2] + 1 < image_cv.w
          /\ ~ColorMask(image_cv)[<<p[1], p[2] + 1>>]
          /\ ColorEnhanced(image_cv, 1)[<<p[1], p[2] + 1>>] < 255
          /\ result.px[p] = <<255, 255, 255>>

\* ------------------------------------------------------------------------
\* Properties of the run

\* C1: at most one page has a live raster, and at most two rasters (the
\* page's raster and one transformed copy of it) are live, in every state.
C1_OnePageRasterLive ==
    /\ Cardinality(LivePages) <= 1
    /\ Cardinality(LiveRasters) <= 2

\* C2: the payload stored at position i was produced from source page i, and
\* the assembler is handed exactly the pages 0..N-1 in ascending order.
C2_PayloadOrder ==
    /\ \A k \in DOMAIN processed_images_bytes :
          processed_images_bytes[k].page = k - 1
    /\ final_pdf_bytes # None => final_pdf_bytes[1] = AllPages(doc_pages)

C2_Witness ==
    /\ pc = "done"
    /\ doc_pages = 3
    /\ Len(processed_images_bytes) = 3
    /\ download # None

\* C3: on a run that reaches done, the assembler was handed as many payloads
\* as total_pages, the count taken before the first page was processed.
C3_PageCount ==
    pc = "done" => Cardinality(DOMAIN final_pdf_bytes[1]) = total_pages

C3_Witness ==
    /\ pc = "done"
    /\ total_pages = MaxPages
    /\ Cardinality(DOMAIN final_pdf_bytes[1]) = MaxPages

\* C4: an error sends the run directly to failed; after that no page is
\* processed and nothing is offered; a run never ends with both an error
\* and a document, and an offered document holds every page.
C4_FailFast ==
    /\ [](error_shown => pc = "failed" /\ download = None)
    /\ [](download # None =>
            /\ ~error_shown
            /\ pc = "done"
            /\ download[1] = AllPages(doc_pages))
    /\ [][/\ (error_shown' /\ ~error_shown =>
                 /\ pc' = "failed"
                 /\ UNCHANGED <<i, processed_images_bytes, download>>)
          /\ (pc = "failed" =>
                 UNCHANGED <<pc, i, processed_images_bytes, download>>)]_vars

C4_Witness ==
    /\ pc = "failed"
    /\ error_shown
    /\ Len(processed_images_bytes) >= 1
    /\ Len(processed_images_bytes) < doc_pages
    /\ download = None

\* a progress call is made in this step
ProgressCalled == Len(progress_events') = Len(progress_events) + 1

\* C5: the progress event of page i is emitted after page i's payload has
\* been stored, and every reported value is strictly greater than the one
\* reported before it.
C5_StrictAfterStore ==
    [][ProgressCalled =>
          /\ progress_events # <<>> =>
                Last(progress_events').value > Last(progress_events).value
          /\ Last(progress_events').line = 123 =>
                Len(processed_images_bytes) >= i + 1]_vars

\* C5 as amended: the progress event of page i is emitted before page i is
\* processed, when exactly the payloads of pages 0..i-1 are stored; the
\* reported values never decrease, and the final 100 is above all of them.
C5_NonDecreasingBeforePage ==
    [][ProgressCalled =>
          /\ progress_events # <<>> =>
                Last(progress_events').value >= Last(progress_events).value
          /\ Last(progress_events').line = 123 =>
                /\ Len(processed_images_bytes) = i
                /\ \A k \in DOMAIN processed_images_bytes :
                      processed_images_bytes[k].page < i
          /\ Last(progress_events').line = 153 =>
                \A k \in DOMAIN progress_events :
                    progress_events[k].value < 100]_vars

C5_Witness ==
    /\ pc = "to_cv"
    /\ i = 2
    /\ Len(progress_events) = 4
    /\ Last(progress_events).line = 123
    /\ Last(progress_events).value > progress_events[3].value

\* C8: the rasterization of page k+1 begins only after page k's payload has
\* been stored and page k's raster released, and the loop moves on from
\* page i only after both.
C8_NoRasterizeAhead ==
    [][/\ \A k \in 0..MaxPages :
             (k + 1 \in Rasterized' /\ k + 1 \notin Rasterized) =>
                 /\ Len(processed_images_bytes) > k
                 /\ k \notin LivePages
       /\ i' = i + 1 =>
             /\ Len(processed_images_bytes') > i
             /\ i \notin LivePages']_vars

\* the events of the page loop: the one at position k is that of page k - 2
LoopEvents == {k \in DOMAIN progress_events : progress_events[k].line = 123}

\* C10: each value reported in the loop is floor(i * 90 / total_pages), in
\* 0..89, with total_pages >= 1; 100 is reported only after the assembler
\* returned, never on a failed run.
C10_FloorValue ==
    /\ \A k \in LoopEvents :
          /\ total_pages >= 1
          /\ progress_events[k].value \in 0..89
          /\ progress_events[k].value = ((k - 2) * 90) \div total_pages
    /\ \A k \in DOMAIN progress_events :
          progress_events[k].line = 153 =>
              final_pdf_bytes # None /\ pc # "failed"

\* C10 as amended: each value reported in the loop is in 0..89 and is
\* floor(i * 90 / total_pages) or one less (the quotient i / total_pages is
\* rounded before it is multiplied), with total_pages >= 1; 100 is reported
\* only after the assembler returned, never on a failed run.
C10_TruncatedValue ==
    /\ \A k \in LoopEvents :
          /\ total_pages >= 1
          /\ progress_events[k].value \in 0..89
          /\ ((k - 2) * 90) \div total_pages - progress_events[k].value
                \in {0, 1}
    /\ \A k \in DOMAIN progress_events :
          progress_events[k].line = 153 =>
              final_pdf_bytes # None /\ pc # "failed"

C10_Witness ==
    /\ pc = "done"
    /\ total_pages = 10
    /\ progress_events[9] = Event(123, 62)
    /\ Last(progress_events) = Event(153, 100)

====
